---- MODULE Spec2Model ----
(***************************************************************************)
(* A model of ProgressiveReader's src/app.py: the Flask handlers that load *)
(* an EPUB into the session (upload_file), render one spine unit           *)
(* (read_item), serve a packaged resource (serve_epub_image), and the      *)
(* helpers get_toc_list, add_jlpt_highlighting and cleanup_temp_file.      *)
(*                                                                         *)
(* Python strings that the code cuts or joins (hrefs, paths, text runs)    *)
(* are sequences of one-character strings; positions are zero-based as in  *)
(* the code, so spine_ids[i] of the code is spine_ids[i + 1] here.         *)
(***************************************************************************)
EXTENDS Integers, Sequences, FiniteSets, TLC

VARIABLES
    session,    \* the Flask session: which keys are set, and their values
    fs,         \* the temp directory: temp path -> the book stored there, or NoFile
    resp,       \* the response of the last request handled
    rd,         \* a read request in flight (interleaved specification only)
    up,         \* an upload request in flight (interleaved specification only)
    arg,        \* the arguments of a helper call (helper specifications only)
    ret         \* the result of that call

vars == <<session, fs, resp, rd, up, arg, ret>>

\* The value of a variable a specification does not use.
Idle == "idle"

(***************************************************************************)
(* Bounds of the model.                                                    *)
(***************************************************************************)
\* Longest spine (book.spine) of a generated book.
MaxSpine == 2
\* Most navigation nodes (Link, Section, tuple, other) in a generated book.toc.
MaxNav == 3
\* Longest src attribute of a generated img tag, in characters.
MaxSrcLen == 5
\* Most nodes (elements and text runs) in a generated unit's markup.
MaxDom == 4
\* The temp file names tempfile.NamedTemporaryFile may hand out.
MaxTemp == 2

(***************************************************************************)
(* Sequences and strings.                                                  *)
(***************************************************************************)
SeqsUpTo(S, n) == UNION {[1..k -> S] : k \in 0..n}

\* s.find(c): the 1-based place of the first c in s, 0 when there is none.
RECURSIVE FindFrom(_, _, _)
FindFrom(s, c, i) ==
    IF i > Len(s) THEN 0
    ELSE IF s[i] = c THEN i
    ELSE FindFrom(s, c, i + 1)

\* s.split('#')[0]
SplitHash(s) ==
    LET i == FindFrom(s, "#", 1)
    IN  IF i = 0 THEN s ELSE SubSeq(s, 1, i - 1)

(***************************************************************************)
(* The package: manifest items, as ebooklib hands them out.                *)
(***************************************************************************)
ITEM_DOCUMENT == "document"
ITEM_IMAGE == "image"

\* The manifest of the packages of the model. i3 names the path of i1 with a
\* fragment; i4 and i6 are images, i6 without an extension; i5 has no file name.
Manifest ==
    [i1 |-> [file_name |-> <<"t", "/", "a">>, type |-> ITEM_DOCUMENT],
     i2 |-> [file_name |-> <<"t", "/", "b">>, type |-> ITEM_DOCUMENT],
     i3 |-> [file_name |-> <<"t", "/", "a", "#", "n">>, type |-> ITEM_DOCUMENT],
     i4 |-> [file_name |-> <<"i", "/", "p", ".", "p", "n", "g">>, type |-> ITEM_IMAGE],
     i5 |-> [file_name |-> <<>>, type |-> ITEM_DOCUMENT],
     i6 |-> [file_name |-> <<"i", "/", "q">>, type |-> ITEM_IMAGE]]

\* An id the spine may name although the manifest has no such item.
MissingId == "zz"

\* book.get_item_with_id(item_id) finds an item (it returns None otherwise).
has_item(item_id) == item_id \in DOMAIN Manifest

\* book.get_item_with_id(item_id), where it finds one.
get_item_with_id(item_id) == Manifest[item_id]

(***************************************************************************)
(* upload_file, lines 206-211: the spine filtered to documents.            *)
(***************************************************************************)
RECURSIVE filter_spine(_)
filter_spine(spine) ==
    IF spine = <<>> THEN <<>>
    ELSE LET item_id == Head(spine)
         IN  IF has_item(item_id) /\ get_item_with_id(item_id).type = ITEM_DOCUMENT
             THEN <<item_id>> \o filter_spine(Tail(spine))
             ELSE filter_spine(Tail(spine))

(***************************************************************************)
(* get_toc_list                                                            *)
(***************************************************************************)
NoTitle == "(No Title)"

\* The mutant of build_file_map: a later spine entry overwrites an earlier one.
RECURSIVE build_file_map_last(_, _, _)
build_file_map_last(spine_ids, index, map) ==
    IF index >= Len(spine_ids) THEN map
    ELSE LET item_id == spine_ids[index + 1]
         IN  IF has_item(item_id) /\ get_item_with_id(item_id).file_name # <<>>
             THEN LET base_filename == SplitHash(get_item_with_id(item_id).file_name)
                  IN  build_file_map_last(spine_ids, index + 1,
                          (base_filename :> index) @@ map)
             ELSE build_file_map_last(spine_ids, index + 1, map)

\* Lines 51-58: spine_file_map, built from spine position `index` on.
RECURSIVE build_file_map(_, _, _)
build_file_map(spine_ids, index, map) ==
    IF index >= Len(spine_ids) THEN map
    ELSE LET item_id == spine_ids[index + 1]
         IN  IF has_item(item_id) /\ get_item_with_id(item_id).file_name # <<>>
             THEN LET base_filename == SplitHash(get_item_with_id(item_id).file_name)
                  IN  IF base_filename \notin DOMAIN map
                      THEN build_file_map(spine_ids, index + 1,
                               map @@ (base_filename :> index))
                      ELSE build_file_map(spine_ids, index + 1, map)
             ELSE build_file_map(spine_ids, index + 1, map)

spine_file_map(spine_ids) == build_file_map(spine_ids, 0, <<>>)

\* Lines 61-87. st is the traversal so far: toc_list, and whether a step raised
\* (item.children of a Section that has no such attribute: AttributeError).
RECURSIVE process_toc_item(_, _, _), process_each(_, _, _)
process_toc_item(item, map, st) ==
    IF st.raised THEN st
    ELSE IF item.kind = "Link" THEN
        LET href_filename == SplitHash(item.href)
        IN  IF href_filename \in DOMAIN map
            THEN [st EXCEPT !.toc_list = Append(@,
                     [title |-> IF item.title # "" THEN item.title ELSE NoTitle,
                      index |-> map[href_filename],
                      href |-> item.href])]
            ELSE st
    ELSE IF item.kind = "Section" THEN
        IF item.has_children
        THEN process_each(item.children, map, st)
        ELSE [st EXCEPT !.raised = TRUE]
    ELSE IF item.kind = "Tuple" /\ Len(item.items) > 0 THEN
        LET s1 == IF item.items[1].kind \in {"Section", "Link"}
                  THEN process_toc_item(item.items[1], map, st)
                  ELSE st
        IN  IF Len(item.items) > 1 /\ item.items[2].kind = "List"
            THEN process_each(item.items[2].elems, map, s1)
            ELSE s1
    ELSE st

\* for child_item in ...: process_toc_item(child_item)
process_each(items, map, st) ==
    IF items = <<>> THEN st
    ELSE process_each(Tail(items), map, process_toc_item(Head(items), map, st))

\* The mutant of unique_toc: a later entry replaces the one kept for its index.
RECURSIVE unique_toc_last(_, _, _)
unique_toc_last(toc_list, seen_indices, unique) ==
    IF toc_list = <<>> THEN unique
    ELSE LET entry == Head(toc_list)
         IN  IF entry.index \notin seen_indices
             THEN unique_toc_last(Tail(toc_list), seen_indices \cup {entry.index},
                      Append(unique, entry))
             ELSE unique_toc_last(Tail(toc_list), seen_indices,
                      [k \in 1..Len(unique) |->
                          IF unique[k].index = entry.index THEN entry ELSE unique[k]])

\* Lines 94-99: the entries whose index was not seen before, in order.
RECURSIVE unique_toc(_, _, _)
unique_toc(toc_list, seen_indices, unique) ==
    IF toc_list = <<>> THEN unique
    ELSE LET entry == Head(toc_list)
         IN  IF entry.index \notin seen_indices
             THEN unique_toc(Tail(toc_list), seen_indices \cup {entry.index},
                      Append(unique, entry))
             ELSE unique_toc(Tail(toc_list), seen_indices, unique)

\* get_toc_list(book, spine_ids): [raised, toc]; toc is what it returns.
get_toc_list(book, spine_ids) ==
    LET st == process_each(book.toc, spine_file_map(spine_ids),
                           [toc_list |-> <<>>, raised |-> FALSE])
    IN  [raised |-> st.raised,
         toc |-> IF st.raised THEN <<>> ELSE unique_toc(st.toc_list, {}, <<>>)]

(***************************************************************************)
(* Generated navigation trees: every book.toc of at most MaxNav nodes.     *)
(***************************************************************************)
\* hrefs of navigation links: t/c is in no spine.
Hrefs == {<<"t", "/", "a">>, <<"t", "/", "a", "#", "n">>, <<"t", "/", "b">>,
          <<"t", "/", "c">>}

\* Navigation links; one of them has no title.
Links == [kind : {"Link"}, title : {"Ch"}, href : Hrefs]
         \cup {[kind |-> "Link", title |-> "", href |-> <<"t", "/", "a">>]}

OtherNode == [kind |-> "Other"]

SectionNode(children) ==
    [kind |-> "Section", title |-> "Part", has_children |-> TRUE, children |-> children]

\* ebooklib's Section as it is: a title and an href, no children attribute.
BareSection == [kind |-> "Section", title |-> "Part", has_children |-> FALSE,
                children |-> <<>>]

ListNode(elems) == [kind |-> "List", elems |-> elems]

TupleNode(items) == [kind |-> "Tuple", items |-> items]

Leaves == Links \cup {OtherNode, BareSection}

RECURSIVE NodesOfSize(_), ForestsOfSize(_)
NodesOfSize(n) ==
    IF n = 1 THEN Leaves
    ELSE IF n = 2 THEN {SectionNode(<<>>), TupleNode(<<>>)} ELSE {}
         \cup {SectionNode(f) : f \in ForestsOfSize(n - 1)}
         \cup {TupleNode(<<h>>) : h \in NodesOfSize(n - 1)}
         \cup UNION {{TupleNode(<<h, ListNode(f)>>) :
                         h \in NodesOfSize(m), f \in ForestsOfSize(n - 1 - m)} :
                     m \in 1..(n - 1)}
         \cup {TupleNode(<<h, OtherNode>>) : h \in NodesOfSize(n - 1)}

ForestsOfSize(n) ==
    IF n = 0 THEN {<<>>}
    ELSE UNION {{<<t>> \o f : t \in NodesOfSize(m), f \in ForestsOfSize(n - m)} :
                m \in 1..n}

NavForests == UNION {ForestsOfSize(n) : n \in 0..MaxNav}

SpineIdChoices == DOMAIN Manifest \cup {MissingId}

\* Spines paired with every generated navigation tree: two units; two units
\* of one path, the fragment-carrying one first; a spine that is filtered;
\* a unit without a file name before the others.
KeySpines == {<<"i1", "i2">>, <<"i3", "i1">>, <<"i2", "i4", "i1">>,
              <<"i5", "i3", "i2">>}

LinkTo(title, href) == [kind |-> "Link", title |-> title, href |-> href]

\* Navigation trees paired with every generated spine.
KeyTocs ==
    {<<>>,
     <<LinkTo("Ch", <<"t", "/", "a">>)>>,
     <<LinkTo("Ch", <<"t", "/", "b">>), LinkTo("", <<"t", "/", "a", "#", "n">>)>>,
     <<TupleNode(<<BareSection,
                   ListNode(<<LinkTo("Ch", <<"t", "/", "a", "#", "n">>),
                              LinkTo("Ch", <<"t", "/", "c">>),
                              LinkTo("Ch", <<"t", "/", "a">>)>>)>>)>>,
     <<SectionNode(<<LinkTo("Ch", <<"t", "/", "a">>)>>),
       LinkTo("Ch", <<"t", "/", "b">>),
       LinkTo("Ch", <<"t", "/", "a", "#", "n">>)>>}

\* The books get_toc_list is applied to.
GenBooks ==
    [spine : KeySpines, toc : NavForests]
    \cup [spine : SeqsUpTo(SpineIdChoices, MaxSpine), toc : KeyTocs]

(***************************************************************************)
(* SpecToc: get_toc_list applied to the filtered spine of a generated book. *)
(***************************************************************************)
NotCalled == [done |-> FALSE]

InitToc ==
    /\ arg \in GenBooks
    /\ ret = NotCalled
    /\ session = Idle /\ fs = Idle /\ resp = Idle /\ rd = Idle /\ up = Idle

CallToc ==
    /\ ret = NotCalled
    /\ LET spine_ids == filter_spine(arg.spine)
           r == get_toc_list(arg, spine_ids)
       IN  ret' = [done |-> TRUE, spine_ids |-> spine_ids,
                   spine_file_map |-> spine_file_map(spine_ids),
                   raised |-> r.raised, toc |-> r.toc]
    /\ UNCHANGED <<session, fs, resp, rd, up, arg>>

NextToc == CallToc

SpecToc == InitToc /\ [][NextToc]_vars

(***************************************************************************)
(* What the table of contents is measured against: the links a traversal   *)
(* reaches, each with its path in the tree (child numbers from the root),  *)
(* and the spine positions that carry a given unit path.                   *)
(***************************************************************************)
RECURSIVE LexLess(_, _)
LexLess(p, q) ==
    IF q = <<>> THEN FALSE
    ELSE IF p = <<>> THEN TRUE
    ELSE IF Head(p) # Head(q) THEN Head(p) < Head(q)
    ELSE LexLess(Tail(p), Tail(q))

\* The Link nodes reachable from node, which sits at path `at`. A tuple's own
\* node is child 1, the k-th element of its trailing list is child <<2, k>>.
RECURSIVE LinkPathsOf(_, _)
LinkPathsOf(node, at) ==
    IF node.kind = "Link" THEN {[path |-> at, link |-> node]}
    ELSE IF node.kind = "Section" THEN
        UNION {LinkPathsOf(node.children[k], Append(at, k)) :
               k \in 1..Len(node.children)}
    ELSE IF node.kind = "Tuple" /\ Len(node.items) > 0 THEN
        (IF node.items[1].kind \in {"Link", "Section"}
         THEN LinkPathsOf(node.items[1], Append(at, 1)) ELSE {})
        \cup
        (IF Len(node.items) > 1 /\ node.items[2].kind = "List"
         THEN UNION {LinkPathsOf(node.items[2].elems[k], at \o <<2, k>>) :
                     k \in 1..Len(node.items[2].elems)}
         ELSE {})
    ELSE {}

ReachableLinks(toc) == UNION {LinkPathsOf(toc[k], <<k>>) : k \in 1..Len(toc)}

\* The positions of the addressable units whose fragment-stripped path is path.
\* A unit without a file name has no path.
PositionsOf(spine_ids, path) ==
    {i \in 0..(Len(spine_ids) - 1) :
        LET name == get_item_with_id(spine_ids[i + 1]).file_name
        IN  name # <<>> /\ SplitHash(name) = path}

UnitPaths(spine_ids) ==
    {SplitHash(get_item_with_id(spine_ids[i]).file_name) :
        i \in {j \in 1..Len(spine_ids) :
                  get_item_with_id(spine_ids[j]).file_name # <<>>}}

MinOf(S) == CHOOSE m \in S : \A n \in S : m <= n

\* The reachable links whose target is the path of some unit.
ResolvingLinks(toc, spine_ids) ==
    {lp \in ReachableLinks(toc) : PositionsOf(spine_ids, SplitHash(lp.link.href)) # {}}

FirstPosition(spine_ids, href) == MinOf(PositionsOf(spine_ids, SplitHash(href)))

\* The first link, in depth-first order, that reaches position q.
FirstLinkAt(toc, spine_ids, q) ==
    LET at == {lp \in ResolvingLinks(toc, spine_ids) :
                  FirstPosition(spine_ids, lp.link.href) = q}
    IN  CHOOSE lp \in at : \A other \in at : other = lp \/ LexLess(lp.path, other.path)

\* C1: the table of contents get_toc_list returns has no two entries with the
\* same position, holds exactly the positions some reachable link resolves to,
\* each with the title and href of the first link that reaches it in a
\* depth-first, children-in-order traversal, and lists them in the order in
\* which those first links are reached.
C1_TocDedupOrder ==
    (ret.done /\ ~ret.raised) =>
        LET toc == ret.toc
            reached == {FirstPosition(ret.spine_ids, lp.link.href) :
                           lp \in ResolvingLinks(arg.toc, ret.spine_ids)}
        IN  /\ \A i, j \in 1..Len(toc) : i # j => toc[i].index # toc[j].index
            /\ {toc[k].index : k \in 1..Len(toc)} = reached
            /\ \A k \in 1..Len(toc) :
                   LET first == FirstLinkAt(arg.toc, ret.spine_ids, toc[k].index)
                   IN  /\ toc[k].href = first.link.href
                       /\ toc[k].title = (IF first.link.title # ""
                                          THEN first.link.title ELSE NoTitle)
            /\ \A k, l \in 1..Len(toc) :
                   k < l => LexLess(
                       FirstLinkAt(arg.toc, ret.spine_ids, toc[k].index).path,
                       FirstLinkAt(arg.toc, ret.spine_ids, toc[l].index).path)

\* C1's case: two links with different hrefs, at different depths of the tree,
\* reach the same position, and the table of contents was returned.
C1_Witness ==
    /\ ret.done /\ ~ret.raised
    /\ \E a, b \in ResolvingLinks(arg.toc, ret.spine_ids) :
          /\ a.link.href # b.link.href
          /\ FirstPosition(ret.spine_ids, a.link.href)
                 = FirstPosition(ret.spine_ids, b.link.href)
          /\ Len(a.path) # Len(b.path)

\* C2: the path index maps exactly the fragment-stripped paths of the units
\* to the smallest position carrying that path; every entry of the table of
\* contents carries the smallest position of its link's stripped target, and
\* that position is an index into spine_ids.
C2_FirstOccurrenceIndex ==
    ret.done =>
        /\ DOMAIN ret.spine_file_map = UnitPaths(ret.spine_ids)
        /\ \A p \in DOMAIN ret.spine_file_map :
               ret.spine_file_map[p] = MinOf(PositionsOf(ret.spine_ids, p))
        /\ \A k \in 1..Len(ret.toc) :
               /\ PositionsOf(ret.spine_ids, SplitHash(ret.toc[k].href)) # {}
               /\ ret.toc[k].index = FirstPosition(ret.spine_ids, ret.toc[k].href)
               /\ 0 <= ret.toc[k].index
               /\ ret.toc[k].index < Len(ret.spine_ids)

\* C2's case: two spine entries share a path and a link to it is resolved.
C2_Witness ==
    /\ ret.done /\ ~ret.raised
    /\ \E k \in 1..Len(ret.toc) :
          Cardinality(PositionsOf(ret.spine_ids, SplitHash(ret.toc[k].href))) >= 2

\* The entry a link gives when its fragment-stripped target is in the index.
EntryOf(link, map) ==
    [title |-> IF link.title # "" THEN link.title ELSE NoTitle,
     index |-> map[SplitHash(link.href)],
     href |-> link.href]

\* The reachable links whose fragment-stripped target is in the path index.
IndexedLinks(toc, map) ==
    {lp \in ReachableLinks(toc) : SplitHash(lp.link.href) \in DOMAIN map}

\* C11: the traversal raises no error; every entry of the table of contents
\* is the entry of a reachable Link whose fragment-stripped target is in the
\* path index, so Sections and links with an absent target give no entry;
\* the traversal goes on past them, so every position some reachable indexed
\* link resolves to has its entry; and the table of contents is no longer
\* than the number of reachable Link nodes.
C11_EntriesFromIndexedLinks ==
    ret.done =>
        /\ ~ret.raised
        /\ \A k \in 1..Len(ret.toc) :
               \E lp \in IndexedLinks(arg.toc, ret.spine_file_map) :
                   ret.toc[k] = EntryOf(lp.link, ret.spine_file_map)
        /\ \A lp \in IndexedLinks(arg.toc, ret.spine_file_map) :
               \E k \in 1..Len(ret.toc) :
                   ret.toc[k].index = ret.spine_file_map[SplitHash(lp.link.href)]
        /\ Len(ret.toc) <= Cardinality(ReachableLinks(arg.toc))

(***************************************************************************)
(* read_item, lines 285-289: the package path of an image reference, by    *)
(* posixpath.dirname, posixpath.join and posixpath.normpath.               *)
(***************************************************************************)
\* s.rfind(c) + 1: the 1-based place of the last c in s, 0 when there is none.
RECURSIVE RFind(_, _, _)
RFind(s, c, i) ==
    IF i = 0 THEN 0
    ELSE IF s[i] = c THEN i
    ELSE RFind(s, c, i - 1)

\* s.rstrip('/')
RECURSIVE RStripSlash(_)
RStripSlash(s) ==
    IF s # <<>> /\ s[Len(s)] = "/" THEN RStripSlash(SubSeq(s, 1, Len(s) - 1)) ELSE s

AllSlashes(s) == \A k \in 1..Len(s) : s[k] = "/"

\* posixpath.dirname(p)
dirname(p) ==
    LET i == RFind(p, "/", Len(p))
        head == SubSeq(p, 1, i)
    IN  IF head # <<>> /\ ~AllSlashes(head) THEN RStripSlash(head) ELSE head

\* posixpath.join(a, b)
join(a, b) ==
    IF b # <<>> /\ b[1] = "/" THEN b
    ELSE IF a = <<>> \/ a[Len(a)] = "/" THEN a \o b
    ELSE a \o <<"/">> \o b

\* path.split('/')
RECURSIVE SplitSlash(_)
SplitSlash(s) ==
    LET i == FindFrom(s, "/", 1)
    IN  IF i = 0 THEN <<s>>
        ELSE <<SubSeq(s, 1, i - 1)>> \o SplitSlash(SubSeq(s, i + 1, Len(s)))

\* '/'.join(comps)
RECURSIVE JoinSlash(_)
JoinSlash(comps) ==
    IF comps = <<>> THEN <<>>
    ELSE IF Len(comps) = 1 THEN comps[1]
    ELSE comps[1] \o <<"/">> \o JoinSlash(Tail(comps))

DotDot == <<".", ".">>

\* The loop of posixpath.normpath over the components of the path.
RECURSIVE norm_comps(_, _, _)
norm_comps(comps, initial_slashes, new_comps) ==
    IF comps = <<>> THEN new_comps
    ELSE LET comp == Head(comps)
         IN  IF comp = <<>> \/ comp = <<".">>
             THEN norm_comps(Tail(comps), initial_slashes, new_comps)
             ELSE IF \/ comp # DotDot
                     \/ (initial_slashes = 0 /\ new_comps = <<>>)
                     \/ (new_comps # <<>> /\ new_comps[Len(new_comps)] = DotDot)
             THEN norm_comps(Tail(comps), initial_slashes, Append(new_comps, comp))
             ELSE IF new_comps # <<>>
             THEN norm_comps(Tail(comps), initial_slashes,
                             SubSeq(new_comps, 1, Len(new_comps) - 1))
             ELSE norm_comps(Tail(comps), initial_slashes, new_comps)

\* posixpath.normpath(path)
normpath(path) ==
    IF path = <<>> THEN <<".">>
    ELSE LET initial_slashes ==
                 IF path[1] # "/" THEN 0
                 ELSE IF Len(path) >= 2 /\ path[2] = "/"
                         /\ ~(Len(path) >= 3 /\ path[3] = "/") THEN 2
                 ELSE 1
             joined == JoinSlash(norm_comps(SplitSlash(path), initial_slashes, <<>>))
             out == [k \in 1..initial_slashes |-> "/"] \o joined
         IN  IF out = <<>> THEN <<".">> ELSE out

\* Lines 285 and 289: what read_item hands to url_for as image_href.
absolute_image_path(file_name, original_src) ==
    normpath(join(dirname(file_name), original_src))

\* The file names of the units whose images are rewritten.
UnitFileNames == {<<"a">>, <<"t", "/", "a">>}

\* The characters of a generated src attribute.
SrcChars == {"/", ".", "p"}

\* img_tag.get('src') values that pass `if original_src`.
SrcValues == SeqsUpTo(SrcChars, MaxSrcLen) \ {<<>>}

InitPath ==
    /\ arg \in [file_name : UnitFileNames, original_src : SrcValues]
    /\ ret = NotCalled
    /\ session = Idle /\ fs = Idle /\ resp = Idle /\ rd = Idle /\ up = Idle

CallPath ==
    /\ ret = NotCalled
    /\ ret' = [done |-> TRUE,
               image_href |-> absolute_image_path(arg.file_name, arg.original_src)]
    /\ UNCHANGED <<session, fs, resp, rd, up, arg>>

NextPath == CallPath

SpecPath == InitPath /\ [][NextPath]_vars

\* The path names something above the package root: its first component is '..'.
LeavesPackage(path) == SplitSlash(path)[1] = DotDot

\* C3: the path read_item hands to the resource-address mapping function
\* never begins with '..', whatever the unit's path and the img src.
C3_PathStaysInPackage ==
    ret.done => ~LeavesPackage(ret.image_href)

(***************************************************************************)
(* Markup. The text html_content is a sequence of markup nodes: a text run *)
(* (its source: characters and entities) or an element with its attribute  *)
(* text and children. BeautifulSoup parses it into a tree of objects: soup  *)
(* is the sequence of those objects, an object's identity is its place in  *)
(* the sequence, and object 1 is the document itself.                      *)
(***************************************************************************)
TextOf(src) == [kind |-> "text", name |-> "", attrs |-> "", src |-> src, kids |-> <<>>]

ElemOf(name, attrs, kids) ==
    [kind |-> "tag", name |-> name, attrs |-> attrs, src |-> <<>>, kids |-> kids]

\* The parser's reading of one source character or entity.
Unescape(tok) ==
    IF tok = "&amp;" THEN "&"
    ELSE IF tok = "&lt;" THEN "<"
    ELSE IF tok = "&gt;" THEN ">"
    ELSE tok

\* The serializer's writing of one character of a text node.
EscapeChar(c) ==
    IF c = "&" THEN "&amp;"
    ELSE IF c = "<" THEN "&lt;"
    ELSE IF c = ">" THEN "&gt;"
    ELSE c

\* The parser's reading of the source of a text run.
RECURSIVE unescape_text(_)
unescape_text(src) ==
    IF src = <<>> THEN <<>> ELSE <<Unescape(Head(src))>> \o unescape_text(Tail(src))

\* The serializer's writing of a text node.
RECURSIVE escape_text(_)
escape_text(text) ==
    IF text = <<>> THEN <<>> ELSE <<EscapeChar(Head(text))>> \o escape_text(Tail(text))

\* html.escape(s), quote = True
RECURSIVE html_escape(_)
html_escape(s) ==
    IF s = <<>> THEN <<>>
    ELSE (IF s[1] = "&" THEN <<"&", "a", "m", "p", ";">>
          ELSE IF s[1] = "<" THEN <<"&", "l", "t", ";">>
          ELSE IF s[1] = ">" THEN <<"&", "g", "t", ";">>
          ELSE IF s[1] = "\"" THEN <<"&", "q", "u", "o", "t", ";">>
          ELSE IF s[1] = "'" THEN <<"&", "#", "x", "2", "7", ";">>
          ELSE <<s[1]>>) \o html_escape(Tail(s))

NoParent == 0

Obj(kind, name, attrs, text, parent) ==
    [kind |-> kind, name |-> name, attrs |-> attrs, text |-> text,
     contents |-> <<>>, parent |-> parent]

\* tag.append(node) for an object that has no parent.
Attach(soup, tag, id) ==
    [soup EXCEPT ![tag].contents = Append(@, id), ![id].parent = tag]

\* BeautifulSoup(html_content, 'lxml'): the nodes become children of parent,
\* in document order.
RECURSIVE parse_into(_, _, _)
parse_into(soup, parent, nodes) ==
    IF nodes = <<>> THEN soup
    ELSE LET n == Head(nodes)
             id == Len(soup) + 1
             obj == IF n.kind = "text"
                    THEN Obj("text", "", "", unescape_text(n.src), NoParent)
                    ELSE Obj("tag", n.name, n.attrs, <<>>, NoParent)
             s1 == Attach(Append(soup, obj), parent, id)
             s2 == IF n.kind = "tag" THEN parse_into(s1, id, n.kids) ELSE s1
         IN  parse_into(s2, parent, Tail(nodes))

Document == 1

parse(html_content) ==
    parse_into(<<Obj("tag", "[document]", "", <<>>, NoParent)>>, Document, html_content)

\* str(soup): adjacent text nodes run together in the text written.
RECURSIVE serialize_each(_, _)
serialize_each(soup, ids) ==
    IF ids = <<>> THEN <<>>
    ELSE LET o == soup[Head(ids)]
             rest == serialize_each(soup, Tail(ids))
         IN  IF o.kind = "text"
             THEN LET src == escape_text(o.text)
                  IN  IF rest # <<>> /\ rest[1].kind = "text"
                      THEN <<TextOf(src \o rest[1].src)>> \o Tail(rest)
                      ELSE <<TextOf(src)>> \o rest
             ELSE <<ElemOf(o.name, o.attrs, serialize_each(soup, o.contents))>> \o rest

serialize(soup) == serialize_each(soup, soup[Document].contents)

(***************************************************************************)
(* add_jlpt_highlighting                                                   *)
(***************************************************************************)
\* Lines 105-114, cut to one entry: the lemma "W" stands for a listed word.
JLPT_DICT == [W |-> "N5"]

\* level.lower()
Lower(level) == IF level = "N5" THEN "n5" ELSE level

\* Line 124: the names soup.find_all looks for.
ContentNames == {"p", "div", "span", "h1", "h2", "h3", "h4", "h5", "h6"}

\* soup.find_all([...]): the matching tags in document order.
RECURSIVE find_all_from(_, _)
find_all_from(soup, id) ==
    IF id > Len(soup) THEN <<>>
    ELSE (IF soup[id].kind = "tag" /\ soup[id].name \in ContentNames
          THEN <<id>> ELSE <<>>) \o find_all_from(soup, id + 1)

find_all(soup) == find_all_from(soup, 1)

\* child.strip(): a text that is not only whitespace.
NonBlank(text) == \E k \in 1..Len(text) : text[k] # " "

\* tagger(text): fugashi yields one token per word, with its surface and its
\* lemma; whitespace between words belongs to no token's surface. A word is
\* one character here, and the word "w" has the lemma "W".
RECURSIVE tagger(_)
tagger(text) ==
    IF text = <<>> THEN <<>>
    ELSE (IF text[1] = " " THEN <<>>
          ELSE <<[surface |-> <<text[1]>>,
                  lemma |-> IF text[1] = "w" THEN "W" ELSE text[1]]>>)
         \o tagger(Tail(text))

\* Lines 133-144: the fragments of one text run. st is the soup (new_tag adds
\* objects to it) and the fragments collected: a string or a node.
RECURSIVE fragments(_, _)
fragments(tokens, st) ==
    IF tokens = <<>> THEN st
    ELSE LET token == Head(tokens)
             lemma == token.lemma
             surface == token.surface
         IN  IF lemma \in DOMAIN JLPT_DICT
             THEN LET level == JLPT_DICT[lemma]
                      span_tag == Len(st.soup) + 1
                      s1 == Append(st.soup,
                                   Obj("tag", "span", Lower(level), <<>>, NoParent))
                      s2 == Attach(Append(s1, Obj("text", "", "", html_escape(surface),
                                                  NoParent)),
                                   span_tag, span_tag + 1)
                  IN  fragments(Tail(tokens),
                          [soup |-> s2,
                           items |-> Append(st.items, [is_str |-> FALSE, node |-> span_tag,
                                                       str |-> <<>>])])
             ELSE fragments(Tail(tokens),
                      [soup |-> st.soup,
                       items |-> Append(st.items, [is_str |-> TRUE, node |-> 0,
                                                   str |-> html_escape(surface)])])

\* The mutant of new_contents: only the text runs' fragments are collected,
\* the other children are left out.
RECURSIVE new_contents_text_only(_, _)
new_contents_text_only(children, st) ==
    IF children = <<>> THEN st
    ELSE LET child == Head(children)
         IN  IF st.soup[child].kind = "text" /\ NonBlank(st.soup[child].text)
             THEN new_contents_text_only(Tail(children),
                      fragments(tagger(st.soup[child].text), st))
             ELSE new_contents_text_only(Tail(children), st)

\* Lines 127-149: new_contents of one tag, from its children in order.
RECURSIVE new_contents(_, _)
new_contents(children, st) ==
    IF children = <<>> THEN st
    ELSE LET child == Head(children)
         IN  IF st.soup[child].kind = "text" /\ NonBlank(st.soup[child].text)
             THEN new_contents(Tail(children),
                      fragments(tagger(st.soup[child].text), st))
             ELSE new_contents(Tail(children),
                      [soup |-> st.soup,
                       items |-> Append(st.items, [is_str |-> FALSE, node |-> child,
                                                   str |-> <<>>])])

\* seq without its entries equal to id.
RECURSIVE Without(_, _)
Without(seq, id) ==
    IF seq = <<>> THEN <<>>
    ELSE (IF Head(seq) = id THEN <<>> ELSE <<Head(seq)>>) \o Without(Tail(seq), id)

\* element.extract(): the node leaves its parent, if it has one, and is
\* otherwise left as it is.
extract(soup, id) ==
    IF soup[id].parent = NoParent THEN soup
    ELSE [soup EXCEPT ![soup[id].parent].contents = Without(@, id),
                      ![id].parent = NoParent]

\* Line 152: tag.clear() extracts every child of the tag.
RECURSIVE clear(_, _)
clear(soup, tag) ==
    IF soup[tag].contents = <<>> THEN soup
    ELSE clear(extract(soup, soup[tag].contents[1]), tag)

\* Lines 153-154: tag.append(item) for each item; a string becomes a new text
\* node, a node is taken from where it is and put at the end.
RECURSIVE append_each(_, _, _)
append_each(soup, tag, items) ==
    IF items = <<>> THEN soup
    ELSE LET item == Head(items)
         IN  IF item.is_str
             THEN append_each(
                      Attach(Append(soup, Obj("text", "", "", item.str, NoParent)),
                             tag, Len(soup) + 1),
                      tag, Tail(items))
             ELSE append_each(Attach(extract(soup, item.node), tag, item.node),
                              tag, Tail(items))

\* What may raise inside add_jlpt_highlighting: nothing; fugashi.Tagger();
\* BeautifulSoup(...); tagger(text) in the k-th tag; tag.clear() or tag.append
\* in the k-th tag.
NoFailure == [step |-> "none", tag |-> 0]

Failures ==
    {NoFailure, [step |-> "tagger", tag |-> 0], [step |-> "parse", tag |-> 0]}
    \cup {[step |-> "tokenize", tag |-> 1], [step |-> "mutate", tag |-> 1],
          [step |-> "mutate", tag |-> 2]}

HasTextRun(soup, tag) ==
    \E k \in 1..Len(soup[tag].contents) :
        /\ soup[soup[tag].contents[k]].kind = "text"
        /\ NonBlank(soup[soup[tag].contents[k]].text)

\* Lines 126-154: the loop over content_tags from its k-th tag on.
RECURSIVE process_tags(_, _, _, _)
process_tags(soup, content_tags, k, fail) ==
    IF k > Len(content_tags) THEN [soup |-> soup, raised |-> FALSE]
    ELSE LET tag == content_tags[k]
         IN  IF fail.step = "tokenize" /\ fail.tag = k /\ HasTextRun(soup, tag)
             THEN [soup |-> soup, raised |-> TRUE]
             ELSE LET nc == new_contents(soup[tag].contents,
                                         [soup |-> soup, items |-> <<>>])
                      cleared == clear(nc.soup, tag)
                  IN  IF fail.step = "mutate" /\ fail.tag = k
                      THEN [soup |-> cleared, raised |-> TRUE]
                      ELSE process_tags(append_each(cleared, tag, nc.items),
                                        content_tags, k + 1, fail)

\* The mutant of on_exception: the tree as the failure left it is written out.
on_exception_partial(html_content, soup) == serialize(soup)

\* Lines 157-159: return html_content
on_exception(html_content, soup) == html_content

\* add_jlpt_highlighting(html_content): [soup0, soup, raised, content], the
\* tree as parsed, the tree at the end, whether the try block raised, and the
\* text returned.
add_jlpt_highlighting(html_content, fail) ==
    IF fail.step \in {"tagger", "parse"}
    THEN [soup0 |-> <<>>, soup |-> <<>>, raised |-> TRUE,
          content |-> on_exception(html_content, parse(html_content))]
    ELSE LET soup0 == parse(html_content)
             r == process_tags(soup0, find_all(soup0), 1, fail)
         IN  [soup0 |-> soup0, soup |-> r.soup, raised |-> r.raised,
              content |-> IF r.raised THEN on_exception(html_content, r.soup)
                          ELSE serialize(r.soup)]

\* read_item, lines 295-301: the annotation stage.
annotation_stage(content_with_images, jlpt_enabled, fail) ==
    IF jlpt_enabled
    THEN LET r == add_jlpt_highlighting(content_with_images, fail)
         IN  [applied |-> TRUE, soup0 |-> r.soup0, soup |-> r.soup,
              raised |-> r.raised, content_to_render |-> r.content]
    ELSE [applied |-> FALSE, soup0 |-> <<>>, soup |-> <<>>, raised |-> FALSE,
          content_to_render |-> content_with_images]

(***************************************************************************)
(* Generated markup: every unit of at most MaxDom nodes.                   *)
(***************************************************************************)
\* The text runs: a listed word; two words and a space between them; only
\* space; a word and an ampersand.
TextRuns == {<<"w">>, <<"x", " ", "x">>, <<" ">>, <<"x", "&amp;">>}

MarkupLeaves == {TextOf(t) : t \in TextRuns} \cup {ElemOf("img", "src=x", <<>>)}

\* Elements with children: one that find_all picks, one that it does not.
ContainerNames == {"div", "a"}

RECURSIVE MarkupOfSize(_), MarkupSeqsOfSize(_)
MarkupOfSize(n) ==
    IF n = 1 THEN MarkupLeaves
    ELSE {ElemOf(name, IF name = "a" THEN "href=y" ELSE "", kids) :
             name \in ContainerNames, kids \in MarkupSeqsOfSize(n - 1)}

\* No two text runs side by side: in a text they are one run.
MarkupSeqsOfSize(n) ==
    IF n = 0 THEN {<<>>}
    ELSE UNION {{<<q[1]>> \o q[2] :
                    q \in {r \in MarkupOfSize(k) \X MarkupSeqsOfSize(n - k) :
                              r[2] = <<>> \/ r[1].kind = "tag" \/ r[2][1].kind = "tag"}} :
                k \in 1..n}

GenMarkup == UNION {MarkupSeqsOfSize(n) : n \in 1..MaxDom}

InitAnnot ==
    /\ arg \in [html_content : GenMarkup, jlpt_enabled : {TRUE}, fail : Failures]
              \cup [html_content : GenMarkup, jlpt_enabled : {FALSE}, fail : {NoFailure}]
    /\ ret = NotCalled
    /\ session = Idle /\ fs = Idle /\ resp = Idle /\ rd = Idle /\ up = Idle

CallAnnot ==
    /\ ret = NotCalled
    /\ LET r == annotation_stage(arg.html_content, arg.jlpt_enabled, arg.fail)
       IN  ret' = [done |-> TRUE, applied |-> r.applied, soup0 |-> r.soup0,
                   soup |-> r.soup, raised |-> r.raised,
                   content_to_render |-> r.content_to_render]
    /\ UNCHANGED <<session, fs, resp, rd, up, arg>>

NextAnnot == CallAnnot

SpecAnnot == InitAnnot /\ [][NextAnnot]_vars

(***************************************************************************)
(* The session, the temp directory and the uploaded packages.              *)
(***************************************************************************)
\* The session with no key set; a key that is not set holds the value here.
NoSession ==
    [has |-> {}, spine_ids |-> <<>>, temp_epub_path |-> 0, toc_list |-> <<>>,
     jlpt_enabled |-> FALSE]

\* session.pop(key, None)
pop(sess, key) == [sess EXCEPT !.has = @ \ {key}, ![key] = NoSession[key]]

\* session[key] = value
put(sess, key, value) == [sess EXCEPT !.has = @ \cup {key}, ![key] = value]

\* No file is at a temp path.
NoFile == 0

TempPaths == 1..MaxTemp

\* os.path.exists(path)
exists(files, path) == path \in DOMAIN files /\ files[path] # NoFile

\* The packages a user uploads. All carry the manifest; `broken` are the
\* items whose content cannot be read or parsed.
\*   1: two units and a flat table of contents;
\*   2: two units and a table of contents with a Section, as ebooklib builds
\*      it for a nested navigation: (Section, [Link, ...]);
\*   3: not a readable package;
\*   4: a spine without any document;
\*   5: three units, the first of them unreadable.
Uploads ==
    <<[valid |-> TRUE, spine |-> <<"i1", "i2">>, broken |-> {},
       toc |-> <<LinkTo("Ch", <<"t", "/", "a">>), LinkTo("Ch", <<"t", "/", "b">>)>>],
      [valid |-> TRUE, spine |-> <<"i1", "i2">>, broken |-> {},
       toc |-> <<TupleNode(<<BareSection,
                             ListNode(<<LinkTo("Ch", <<"t", "/", "a">>)>>)>>)>>],
      [valid |-> FALSE, spine |-> <<>>, broken |-> {}, toc |-> <<>>],
      [valid |-> TRUE, spine |-> <<"i4", "zz">>, broken |-> {}, toc |-> <<>>],
      [valid |-> TRUE, spine |-> <<"i1", "i4", "i2", "i3">>, broken |-> {"i1"},
       toc |-> <<LinkTo("", <<"t", "/", "b">>)>>]>>

\* The markup of a unit.
unit_content(item_id) ==
    IF item_id = "i2"
    THEN <<ElemOf("div", "", <<TextOf(<<"x", "&amp;">>)>>)>>
    ELSE <<ElemOf("div", "",
                  <<TextOf(<<"w">>),
                    ElemOf("img", <<".", ".", "/", "i", "/", "p", ".", "p", "n", "g">>,
                           <<>>)>>)>>

\* epub.read_epub(path): [raised, book]
read_epub(files, path) ==
    IF exists(files, path) /\ Uploads[files[path]].valid
    THEN [raised |-> FALSE, book |-> Uploads[files[path]]]
    ELSE [raised |-> TRUE, book |-> Uploads[3]]

\* A response: the handler, the status, where a redirect leads, the flashed
\* message, what the body holds, and the request answered.
Response(handler, status, location, flash, body, request) ==
    [handler |-> handler, status |-> status, location |-> location,
     flash |-> flash, body |-> body, request |-> request]

NoBody == <<>>

(***************************************************************************)
(* cleanup_temp_file                                                       *)
(***************************************************************************)
cleanup_temp_file(sess, files) ==
    LET had == "temp_epub_path" \in sess.has
        old_temp_path == sess.temp_epub_path
    IN  [session |-> pop(pop(pop(pop(sess, "temp_epub_path"), "spine_ids"),
                             "toc_list"), "jlpt_enabled"),
         fs |-> IF had /\ exists(files, old_temp_path)
                THEN [files EXCEPT ![old_temp_path] = NoFile]
                ELSE files]

(***************************************************************************)
(* upload_file                                                             *)
(***************************************************************************)
\* Lines 197-241, after cleanup_temp_file: the upload saved at
\* temp_file_path, read, and stored in the session or given up.
upload_build(sess, files, request, temp_file_path) ==
    LET saved == [files EXCEPT ![temp_file_path] = request.book]
        read == read_epub(saved, temp_file_path)
        spine_ids == filter_spine(read.book.spine)
        toc == get_toc_list(read.book, spine_ids)
    IN  IF read.raised \/ (spine_ids # <<>> /\ toc.raised)
        THEN \* except Exception, then finally: the temp file is removed
             [session |-> sess, fs |-> files,
              resp |-> Response("upload_file", 302, "index",
                                "Could not process EPUB file", NoBody, request)]
        ELSE IF spine_ids # <<>>
        THEN [session |-> put(put(put(put(sess, "jlpt_enabled", FALSE),
                                      "spine_ids", spine_ids),
                                  "temp_epub_path", temp_file_path),
                              "toc_list", toc.toc),
              fs |-> saved,
              resp |-> Response("upload_file", 302, "read_item/0", "", NoBody, request)]
        ELSE [session |-> sess, fs |-> files,
              resp |-> Response("upload_file", 302, "index",
                                "EPUB has no readable content in its spine.",
                                NoBody, request)]

upload_file(sess, files, request, temp_file_path) ==
    IF request.form = "no_file_part"
    THEN [session |-> sess, fs |-> files,
          resp |-> Response("upload_file", 302, "index", "No file part", NoBody, request)]
    ELSE IF request.form = "empty_filename"
    THEN [session |-> sess, fs |-> files,
          resp |-> Response("upload_file", 302, "index", "No selected file", NoBody,
                            request)]
    ELSE IF request.form = "epub"
    THEN LET c == cleanup_temp_file(sess, files)
         IN  upload_build(c.session, c.fs, request, temp_file_path)
    ELSE [session |-> sess, fs |-> files,
          resp |-> Response("upload_file", 302, "index",
                            "Invalid file type. Please upload an EPUB file.", NoBody,
                            request)]

UploadRequests ==
    [form : {"no_file_part", "empty_filename", "not_epub"}, book : {0}]
    \cup [form : {"epub"}, book : 1..Len(Uploads)]

(***************************************************************************)
(* read_item                                                               *)
(***************************************************************************)
\* url_for('serve_epub_image', image_href=path)
url_for_image(path) == <<"/", "i", "m", "a", "g", "e", "/">> \o path

\* Lines 286-290: every img with a src gets the address of its package path.
RECURSIVE rewrite_images(_, _, _)
rewrite_images(soup, id, current_item_dir) ==
    IF id > Len(soup) THEN soup
    ELSE IF soup[id].kind = "tag" /\ soup[id].name = "img" /\ soup[id].attrs # <<>>
    THEN rewrite_images(
             [soup EXCEPT ![id].attrs =
                 url_for_image(normpath(join(current_item_dir, soup[id].attrs)))],
             id + 1, current_item_dir)
    ELSE rewrite_images(soup, id + 1, current_item_dir)

\* The mutant of except_read_item: the handler gets past its print and does
\* what follows it, cleanup_temp_file() and the redirect to the index.
except_read_item_cleanup(sess, files, request) ==
    LET c == cleanup_temp_file(sess, files)
    IN  [session |-> c.session, fs |-> c.fs,
         resp |-> Response("read_item", 302, "index", "Error reading book content",
                           NoBody, request)]

\* Lines 304-308: the except clause. Its print formats spine_ids.get(...),
\* spine_ids is a list, so the clause raises AttributeError before it
\* flashes or cleans up: the request ends as an internal error and the
\* session and the temp file are as they were.
except_read_item(sess, files, request) ==
    [session |-> sess, fs |-> files,
     resp |-> Response("read_item", 500, "", "", NoBody, request)]

\* Lines 270-321: the try block and the page, for a position checked valid.
read_item_render(sess, files, spine_ids, temp_path, toc_list, request) ==
    LET read == read_epub(files, temp_path)
        item_id == spine_ids[request.item_index + 1]
    IN  IF read.raised THEN except_read_item(sess, files, request)
        ELSE IF ~has_item(item_id) THEN except_read_item(sess, files, request)
        ELSE IF item_id \in read.book.broken THEN except_read_item(sess, files, request)
        ELSE LET soup == parse(unit_content(item_id))
                 current_item_dir == dirname(get_item_with_id(item_id).file_name)
                 content_with_images ==
                     serialize(rewrite_images(soup, 1, current_item_dir))
                 jlpt_enabled == sess.jlpt_enabled
                 stage == annotation_stage(content_with_images, jlpt_enabled,
                                           request.fail)
             IN  [session |-> sess, fs |-> files,
                  resp |-> Response("read_item", 200, "", "",
                               [content |-> stage.content_to_render,
                                current_index |-> request.item_index,
                                total_items |-> Len(spine_ids),
                                toc |-> toc_list,
                                jlpt_enabled |-> jlpt_enabled],
                               request)]

\* Lines 248-266: the checks before the try block pass.
read_item_admitted(sess, files, request) ==
    /\ {"spine_ids", "temp_epub_path"} \subseteq sess.has
    /\ 0 <= request.item_index /\ request.item_index < Len(sess.spine_ids)
    /\ exists(files, sess.temp_epub_path)

\* Lines 248-266: the answer when a check fails.
read_item_refused(sess, files, request) ==
    IF ~({"spine_ids", "temp_epub_path"} \subseteq sess.has)
    THEN [session |-> sess, fs |-> files,
          resp |-> Response("read_item", 302, "index",
                            "No book loaded. Please upload an EPUB file.", NoBody,
                            request)]
    ELSE IF ~(0 <= request.item_index /\ request.item_index < Len(sess.spine_ids))
    THEN [session |-> sess, fs |-> files,
          resp |-> Response("read_item", 302, "read_item/0", "Invalid chapter index.",
                            NoBody, request)]
    ELSE LET c == cleanup_temp_file(sess, files)
         IN  [session |-> c.session, fs |-> c.fs,
              resp |-> Response("read_item", 302, "index",
                                "Error: Book data expired or file was removed.",
                                NoBody, request)]

read_item(sess, files, request) ==
    IF read_item_admitted(sess, files, request)
    THEN read_item_render(sess, files, sess.spine_ids, sess.temp_epub_path,
                          sess.toc_list, request)
    ELSE read_item_refused(sess, files, request)

ReadRequests ==
    [item_index : -1..4, fail : {NoFailure, [step |-> "tagger", tag |-> 0]}]

(***************************************************************************)
(* serve_epub_image                                                        *)
(***************************************************************************)
\* s.endswith(suffix)
EndsWith(str, suffix) ==
    /\ Len(str) >= Len(suffix)
    /\ SubSeq(str, Len(str) - Len(suffix) + 1, Len(str)) = suffix

\* mimetypes.guess_type(href)[0], "" for None.
guess_type(href) ==
    IF EndsWith(href, <<".", "p", "n", "g">>) /\ Len(href) > 4 THEN "image/png"
    ELSE IF EndsWith(href, <<".", "j", "p", "g">>) /\ Len(href) > 4 THEN "image/jpeg"
    ELSE IF EndsWith(href, <<".", "g", "i", "f">>) /\ Len(href) > 4 THEN "image/gif"
    ELSE ""

\* Lines 349-361
mime_type_of(normalized_href) ==
    LET guessed == guess_type(normalized_href)
    IN  IF guessed # "" THEN guessed
        ELSE IF EndsWith(normalized_href, <<".", "j", "p", "g">>)
                \/ EndsWith(normalized_href, <<".", "j", "p", "e", "g">>)
        THEN "image/jpeg"
        ELSE IF EndsWith(normalized_href, <<".", "p", "n", "g">>) THEN "image/png"
        ELSE IF EndsWith(normalized_href, <<".", "g", "i", "f">>) THEN "image/gif"
        ELSE IF EndsWith(normalized_href, <<".", "s", "v", "g">>) THEN "image/svg+xml"
        ELSE "application/octet-stream"

\* The ids of the items book.get_item_with_href(href) may return.
items_with_href(href) == {id \in DOMAIN Manifest : Manifest[id].file_name = href}

\* Lines 336-371: the try block. abort(404) raises inside it, NotFound is an
\* Exception, and the except clause answers it with abort(500).
serve_from_package(files, temp_path, request) ==
    LET read == read_epub(files, temp_path)
        normalized_href == normpath(request.image_href)
        found == items_with_href(normalized_href)
    IN  IF read.raised
        THEN Response("serve_epub_image", 500, "", "", NoBody, request)
        ELSE IF found # {}
        THEN Response("serve_epub_image", 200, "", "",
                 [image_data |-> CHOOSE id \in found : TRUE,
                  mimetype |-> mime_type_of(normalized_href)],
                 request)
        ELSE Response("serve_epub_image", 500, "", "", NoBody, request)

serve_epub_image(sess, files, request) ==
    IF "temp_epub_path" \notin sess.has
    THEN Response("serve_epub_image", 404, "", "", NoBody, request)
    ELSE IF ~exists(files, sess.temp_epub_path)
    THEN Response("serve_epub_image", 404, "", "", NoBody, request)
    ELSE serve_from_package(files, sess.temp_epub_path, request)

\* i/p.png, i/./p.png, i/q, i/z.png (no such item), t/a
ImageRequests ==
    [image_href : {<<"i", "/", "p", ".", "p", "n", "g">>,
                   <<"i", "/", ".", "/", "p", ".", "p", "n", "g">>,
                   <<"i", "/", "q">>,
                   <<"i", "/", "z", ".", "p", "n", "g">>,
                   <<"t", "/", "a">>}]

(***************************************************************************)
(* Spec: the handlers, one request at a time.                              *)
(***************************************************************************)
Init ==
    /\ session = NoSession
    /\ fs = [path \in TempPaths |-> NoFile]
    /\ resp = Response("none", 0, "", "", NoBody, <<>>)
    /\ rd = Idle /\ up = Idle /\ arg = Idle /\ ret = Idle

\* GET /
Index ==
    /\ LET c == cleanup_temp_file(session, fs)
       IN  /\ session' = c.session
           /\ fs' = c.fs
    /\ resp' = Response("index", 200, "", "", NoBody, <<>>)
    /\ UNCHANGED <<rd, up, arg, ret>>

\* POST /upload; the temp file gets a name no file has once the old one is gone.
Upload ==
    \E request \in UploadRequests, temp_file_path \in TempPaths :
        /\ ~exists(cleanup_temp_file(session, fs).fs, temp_file_path)
        /\ LET r == upload_file(session, fs, request, temp_file_path)
           IN  /\ session' = r.session
               /\ fs' = r.fs
               /\ resp' = r.resp
        /\ UNCHANGED <<rd, up, arg, ret>>

\* GET /read/<item_index>
ReadItem ==
    \E request \in ReadRequests :
        /\ LET r == read_item(session, fs, request)
           IN  /\ session' = r.session
               /\ fs' = r.fs
               /\ resp' = r.resp
        /\ UNCHANGED <<rd, up, arg, ret>>

\* GET /image/<image_href>
ServeImage ==
    \E request \in ImageRequests :
        /\ resp' = serve_epub_image(session, fs, request)
        /\ UNCHANGED <<session, fs, rd, up, arg, ret>>

\* POST /toggle_jlpt
ToggleJlpt ==
    \E payload \in {"true", "false", "invalid"} :
        /\ IF payload = "invalid"
           THEN /\ resp' = Response("toggle_jlpt", 400, "", "", NoBody, payload)
                /\ UNCHANGED session
           ELSE /\ session' = put(session, "jlpt_enabled", payload = "true")
                /\ resp' = Response("toggle_jlpt", 200, "", "",
                                    [jlpt_enabled |-> (payload = "true")], payload)
        /\ UNCHANGED <<fs, rd, up, arg, ret>>

Next == Index \/ Upload \/ ReadItem \/ ServeImage \/ ToggleJlpt

Spec == Init /\ [][Next]_vars

(***************************************************************************)
(* What annotation is measured against: the children of a tag as a row of  *)
(* the elements that were there before, by identity, and of the text       *)
(* between them as it is written out.                                      *)
(***************************************************************************)
\* The object was in the tree as parsed, and was an element there.
IsOldTag(old, id) == id <= Len(old) /\ old[id].kind = "tag"

\* The text a node shows: its own, or that of the text inside a new span.
RECURSIVE ShownText(_, _)
ShownText(soup, id) ==
    IF soup[id].kind = "text" THEN soup[id].text
    ELSE IF soup[id].contents = <<>> THEN <<>>
    ELSE ShownText(soup, soup[id].contents[1])
         \o (IF Len(soup[id].contents) > 1
             THEN ShownText(soup, soup[id].contents[2]) ELSE <<>>)

\* The children ids as a row: an old element as itself, every stretch of
\* other nodes as one entry with the text they show, written as str() does.
RECURSIVE Row(_, _, _)
Row(old, soup, ids) ==
    IF ids = <<>> THEN <<>>
    ELSE LET rest == Row(old, soup, Tail(ids))
             id == Head(ids)
         IN  IF IsOldTag(old, id) THEN <<[node |-> id, text |-> <<>>]>> \o rest
             ELSE LET text == escape_text(ShownText(soup, id))
                  IN  IF rest # <<>> /\ rest[1].node = 0
                      THEN <<[node |-> 0, text |-> text \o rest[1].text]>> \o Tail(rest)
                      ELSE <<[node |-> 0, text |-> text]>> \o rest

\* The row without its text: where the old elements stand among the text.
Places(row) == [k \in 1..Len(row) |-> row[k].node]

\* C4: the annotation stage returns exactly its input when the flag is off,
\* and when the flag is on and a step of add_jlpt_highlighting raised
\* (tagger construction, parsing, tokenization, tree mutation).
C4_UnannotatedIsInput ==
    ret.done =>
        ((~arg.jlpt_enabled \/ ret.raised) => ret.content_to_render = arg.html_content)

\* C4's case: the flag is on, a tree mutation raised after the tree had
\* changed, and the stage returned.
C4_Witness ==
    /\ ret.done /\ arg.jlpt_enabled /\ ret.raised
    /\ arg.fail.step = "mutate"
    /\ serialize(ret.soup) # arg.html_content

\* C5: after annotation, every processed element has the element children it
\* had, the same objects in the same order and at the same places among the
\* text, each with its name and attributes, also when a processed element
\* lies inside another.
C5_NonTextChildrenKept ==
    (ret.done /\ ret.applied /\ ~ret.raised) =>
        LET old == ret.soup0
            new == ret.soup
            tags == find_all(old)
        IN  /\ \A id \in 1..Len(old) :
                   old[id].kind = "tag" =>
                       /\ new[id].kind = "tag"
                       /\ new[id].name = old[id].name
                       /\ new[id].attrs = old[id].attrs
            /\ \A k \in 1..Len(tags) :
                   LET tag == tags[k]
                   IN  /\ Places(Row(old, new, new[tag].contents))
                              = Places(Row(old, old, old[tag].contents))
                       /\ \A j \in 1..Len(new[tag].contents) :
                              new[new[tag].contents[j]].parent = tag

\* C5's case: a processed element with a text run that holds a listed word
\* and with a processed element as a child, which has an element child.
C5_Witness ==
    /\ ret.done /\ ret.applied /\ ~ret.raised
    /\ Len(ret.soup) > Len(ret.soup0)
    /\ \E outer, inner \in 1..Len(ret.soup0) :
          /\ ret.soup0[outer].kind = "tag" /\ ret.soup0[outer].name \in ContentNames
          /\ ret.soup0[inner].kind = "tag" /\ ret.soup0[inner].name \in ContentNames
          /\ ret.soup0[inner].parent = outer
          /\ HasTextRun(ret.soup0, outer)
          /\ \E c \in 1..Len(ret.soup0) :
                ret.soup0[c].kind = "tag" /\ ret.soup0[c].parent = inner
          /\ \E s \in (Len(ret.soup0) + 1)..Len(ret.soup) :
                ret.soup[s].name = "span" /\ ret.soup[s].parent = outer

\* No token of any text of the tree has a lemma the lexicon lists.
NoLexiconMatch(soup) ==
    \A id \in 1..Len(soup) :
        soup[id].kind = "text" =>
            \A k \in 1..Len(tagger(soup[id].text)) :
                tagger(soup[id].text)[k].lemma \notin DOMAIN JLPT_DICT

\* C6: with annotation on and no lemma in the lexicon, no span is added and
\* every stretch of text of every processed element is written out as the
\* same text as before.
C6_NoMatchSameText ==
    (ret.done /\ ret.applied /\ ~ret.raised /\ NoLexiconMatch(ret.soup0)) =>
        LET old == ret.soup0
            new == ret.soup
            tags == find_all(old)
        IN  /\ \A id \in (Len(old) + 1)..Len(new) : new[id].kind = "text"
            /\ \A k \in 1..Len(tags) :
                   Row(old, new, new[tags[k]].contents)
                       = Row(old, old, old[tags[k]].contents)

(***************************************************************************)
(* SpecConc: an upload interleaved with a read of the document loaded      *)
(* before it. Each request works on the session it received and the        *)
(* session the browser holds changes when a response sets it; the temp     *)
(* directory is shared.                                                    *)
(***************************************************************************)
\* The session and temp directory after `book` was uploaded to `path`.
loaded_document(book, path) ==
    upload_file(NoSession, [p \in TempPaths |-> NoFile],
                [form |-> "epub", book |-> book], path)

InitConc ==
    /\ \E book \in {1, 5}, path \in TempPaths :
          /\ arg = [book |-> book, path |-> path]
          /\ session = loaded_document(book, path).session
          /\ fs = loaded_document(book, path).fs
    /\ rd = [pc |-> "idle"]
    /\ up = [pc |-> "idle"]
    /\ resp = Idle /\ ret = Idle

\* read_item lines 248-266: the request arrives with the browser's session
\* and is checked; a refused request is answered at once.
ReadBegin ==
    /\ rd.pc = "idle"
    /\ \E request \in ReadRequests :
          IF read_item_admitted(session, fs, request)
          THEN /\ rd' = [pc |-> "admitted", kind |-> "read_item",
                         request |-> request, sess |-> session]
               /\ UNCHANGED <<session, fs>>
          ELSE LET r == read_item_refused(session, fs, request)
               IN  /\ rd' = [pc |-> "done", kind |-> "read_item",
                             request |-> request, sess |-> session, resp |-> r.resp]
                   /\ session' = r.session
                   /\ fs' = r.fs
    /\ UNCHANGED <<up, resp, arg, ret>>

\* read_item lines 270-321: the package is opened and the unit rendered.
ReadEnd ==
    /\ rd.pc = "admitted" /\ rd.kind = "read_item"
    /\ LET r == read_item_render(rd.sess, fs, rd.sess.spine_ids,
                                 rd.sess.temp_epub_path, rd.sess.toc_list, rd.request)
       IN  /\ rd' = [rd EXCEPT !.pc = "done"] @@ [resp |-> r.resp]
           /\ session' = IF r.session = rd.sess THEN session ELSE r.session
           /\ fs' = r.fs
    /\ UNCHANGED <<up, resp, arg, ret>>

\* serve_epub_image lines 326-334
ImageBegin ==
    /\ rd.pc = "idle"
    /\ \E request \in ImageRequests :
          IF "temp_epub_path" \in session.has /\ exists(fs, session.temp_epub_path)
          THEN rd' = [pc |-> "admitted", kind |-> "serve_epub_image",
                      request |-> request, sess |-> session]
          ELSE rd' = [pc |-> "done", kind |-> "serve_epub_image",
                      request |-> request, sess |-> session,
                      resp |-> serve_epub_image(session, fs, request)]
    /\ UNCHANGED <<session, fs, up, resp, arg, ret>>

\* serve_epub_image lines 336-371
ImageEnd ==
    /\ rd.pc = "admitted" /\ rd.kind = "serve_epub_image"
    /\ rd' = [rd EXCEPT !.pc = "done"]
                @@ [resp |-> serve_from_package(fs, rd.sess.temp_epub_path, rd.request)]
    /\ UNCHANGED <<session, fs, up, resp, arg, ret>>

\* upload_file lines 186-196: an .epub upload arrives and cleanup_temp_file
\* removes the package the session names.
UploadBegin ==
    /\ up.pc = "idle"
    /\ \E book \in 1..Len(Uploads) :
          LET c == cleanup_temp_file(session, fs)
          IN  /\ up' = [pc |-> "cleaned", request |-> [form |-> "epub", book |-> book],
                        sess |-> c.session]
              /\ fs' = c.fs
    /\ UNCHANGED <<session, rd, resp, arg, ret>>

\* upload_file lines 197-241: the upload is saved under a new name, read,
\* and the response sets the browser's session.
UploadEnd ==
    /\ up.pc = "cleaned"
    /\ \E temp_file_path \in TempPaths :
          /\ ~exists(fs, temp_file_path)
          /\ temp_file_path # arg.path
          /\ LET r == upload_build(up.sess, fs, up.request, temp_file_path)
             IN  /\ up' = [up EXCEPT !.pc = "done"] @@ [resp |-> r.resp]
                 /\ session' = r.session
                 /\ fs' = r.fs
    /\ UNCHANGED <<rd, resp, arg, ret>>

NextConc ==
    ReadBegin \/ ReadEnd \/ ImageBegin \/ ImageEnd \/ UploadBegin \/ UploadEnd

SpecConc == InitConc /\ [][NextConc]_vars

(***************************************************************************)
(* What the handlers are measured against                                  *)
(***************************************************************************)
\* The session holds a document and its package file is there.
Loaded ==
    /\ {"spine_ids", "temp_epub_path"} \subseteq session.has
    /\ exists(fs, session.temp_epub_path)

\* The last request was an upload of a readable package whose spine yields
\* a unit and whose navigation structure makes get_toc_list raise.
TocFailedOnUpload ==
    /\ resp.handler = "upload_file"
    /\ resp.request.form = "epub"
    /\ Uploads[resp.request.book].valid
    /\ filter_spine(Uploads[resp.request.book].spine) # <<>>
    /\ get_toc_list(Uploads[resp.request.book],
                    filter_spine(Uploads[resp.request.book].spine)).raised

\* C7: when the traversal of the navigation structure raises and the spine
\* yields at least one unit, the upload still stores the spine and the
\* package file in the session, with an empty table of contents, and sends
\* the reader to unit 0; the package is not deleted.
C7_TocFailureKeepsLoad ==
    TocFailedOnUpload =>
        /\ Loaded
        /\ session.spine_ids = filter_spine(Uploads[resp.request.book].spine)
        /\ fs[session.temp_epub_path] = resp.request.book
        /\ "toc_list" \in session.has /\ session.toc_list = <<>>
        /\ resp.location = "read_item/0"

\* The last request was a read_item that failed inside its try block.
ReadFailed ==
    /\ resp.handler = "read_item"
    /\ resp.status = 500 \/ resp.flash = "Error reading book content"

\* The positions of the loaded document whose unit can be read.
ReadablePositions ==
    {j \in 0..(Len(session.spine_ids) - 1) :
        session.spine_ids[j + 1] \notin Uploads[fs[session.temp_epub_path]].broken}

\* C8: a read_item that fails for one unit leaves the session's document
\* (spine ids, table of contents, package path, annotation flag) and the
\* package file as they were, and a read_item for any other readable
\* position then renders that unit.
C8_ReadFailureIsLocal ==
    /\ [][ReadFailed' => (session' = session /\ fs' = fs)]_vars
    /\ [](ReadFailed =>
            /\ Loaded
            /\ \A j \in ReadablePositions :
                 LET r == read_item(session, fs, [item_index |-> j, fail |-> NoFailure])
                 IN  /\ r.resp.status = 200
                     /\ r.resp.body.current_index = j
                     /\ r.session = session /\ r.fs = fs)

\* A read of the unreadable first unit of a three-unit document has failed
\* after the annotation flag was switched on; two other units are readable.
C8_Witness ==
    /\ ReadFailed
    /\ resp.request.item_index = 0
    /\ Loaded
    /\ Len(session.spine_ids) = 3
    /\ session.jlpt_enabled
    /\ Cardinality(ReadablePositions) = 2

\* C9: for a loaded document a resource request whose normalized path
\* matches no manifest item is answered 404 without bytes, and one whose
\* path matches an item is answered with the item's bytes and a non-empty
\* media type.
C9_MissingResourceIs404 ==
    (resp.handler = "serve_epub_image" /\ Loaded) =>
        IF items_with_href(normpath(resp.request.image_href)) = {}
        THEN resp.status = 404 /\ resp.body = NoBody
        ELSE /\ resp.status = 200
             /\ resp.body.image_data \in
                    items_with_href(normpath(resp.request.image_href))
             /\ resp.body.mimetype # ""

\* The request in flight was made with the session of the document loaded
\* at the start.
AgainstOldDocument ==
    /\ rd.pc # "idle"
    /\ rd.sess = loaded_document(arg.book, arg.path).session

\* What the request in flight is answered with the old document in place.
AnswerFromOldDocument ==
    LET old == loaded_document(arg.book, arg.path)
    IN  IF rd.kind = "read_item"
        THEN read_item(old.session, old.fs, rd.request).resp
        ELSE serve_epub_image(old.session, old.fs, rd.request)

\* C10: in every interleaving of an upload with a read_item or
\* serve_epub_image request made against the old document, the old request
\* finds the old package and is answered from the old document, and the old
\* package is still in place while the upload is being built.
C10_InFlightReadKeepsOldDocument ==
    /\ (AgainstOldDocument /\ rd.pc = "admitted") => fs[arg.path] = arg.book
    /\ (AgainstOldDocument /\ rd.pc = "done") => rd.resp = AnswerFromOldDocument
    /\ up.pc = "cleaned" => fs[arg.path] = arg.book

====
